---- MODULE Spec2Model ----
(***************************************************************************)
(* A2A Guestbook: the API-key cache, its periodic refresher, the           *)
(* application lifespan and the authentication middleware                  *)
(* (app/middleware/auth.py, app/services/secrets.py, app/main.py).         *)
(*                                                                         *)
(* Python strings are sequences of one-character strings.  Everything runs *)
(* on one asyncio event loop: `running` names the coroutine that holds the *)
(* loop between two suspension points; nothing else runs meanwhile.        *)
(***************************************************************************)
EXTENDS Integers, Sequences, FiniteSets, TLC

\* ------------------------------------------------------------------ bounds
\* Number of refresh tasks asyncio.create_task may create in one run.
MaxTasks == 2

\* Number of messages create_message may store in one run.
MaxItems == 2

\* Number of distinct readings of the clock in one run.
MaxTime == 2

\* ------------------------------------------------------------- strings
SP == " "
TAB == "\t"
Whitespace == {SP, TAB}

K1 == <<"a">>
K2 == <<"b">>
K3 == <<"c">>
EmptyStr == <<>>

\* ------------------------------------------------- the secret (SecretSource)
\* A JSON element of the 'api_keys' array: a string or a non-string value.
StrElem(s) == [t |-> "str", v |-> s]
NumElem == [t |-> "num", v |-> EmptyStr]

\* What Secrets Manager holds.  ss: the SecretString ("absent": the response
\* has none, "empty": "", "notjson": text json.loads rejects, "json": parsed);
\* top: the type of the JSON document; field: the value under "api_keys";
\* items: the elements when that value is an array.
Payload(ss, top, field, items) ==
    [ss |-> ss, top |-> top, field |-> field, items |-> items]

KeyList(items) == Payload("json", "object", "list", items)

GoodPayloads ==
    { KeyList(<<StrElem(K1)>>),
      KeyList(<<StrElem(K1), StrElem(K2)>>),
      KeyList(<<StrElem(K2), StrElem(EmptyStr), NumElem, StrElem(K2)>>) }

MalformedPayloads ==
    { Payload("absent", "null", "absent", <<>>),
      Payload("empty", "null", "absent", <<>>),
      Payload("notjson", "null", "absent", <<>>),
      Payload("json", "array", "absent", <<>>),
      Payload("json", "null", "absent", <<>>),
      Payload("json", "object", "absent", <<>>),
      Payload("json", "object", "null", <<>>),
      Payload("json", "object", "string", <<>>),
      Payload("json", "object", "object", <<>>),
      Payload("json", "object", "list", <<>>),
      Payload("json", "object", "list", <<StrElem(EmptyStr), NumElem>>) }

Payloads == GoodPayloads \cup MalformedPayloads

\* Outcome of client.get_secret_value: the call succeeds or raises ClientError.
Outages == {"none", "ResourceNotFoundException", "AccessDeniedException",
            "InternalServiceError"}

\* Python truthiness of the value under "api_keys" (`not api_keys`).
Falsy(p) ==
    \/ p.field \in {"absent", "null", "zero", "emptystr", "emptyobj"}
    \/ p.field = "list" /\ p.items = <<>>

Raise(kind) == [ok |-> FALSE, exc |-> kind, keys |-> <<>>]
Return(keys) == [ok |-> TRUE, exc |-> "none", keys |-> keys]

ValidKeys(items) ==
    LET kept == SelectSeq(items, LAMBDA e : e.t = "str" /\ e.v # EmptyStr)
    IN  [i \in 1..Len(kept) |-> kept[i].v]

\* Variant: the check `if not valid_keys` is missing.
FetchApiKeys_KeepsEmpty(p, outage) ==
    IF outage # "none" THEN Raise("ClientError")
    ELSE IF p.ss \in {"absent", "empty"} THEN Raise("ValueError")
    ELSE IF p.ss = "notjson" THEN Raise("ValueError")
    ELSE IF p.top # "object" THEN Raise("AttributeError")
    ELSE IF Falsy(p) THEN Raise("ValueError")
    ELSE IF p.field # "list" THEN Raise("ValueError")
    ELSE Return(ValidKeys(p.items))

\* fetch_api_keys: the list of valid keys, or the exception it raises.
FetchApiKeys(p, outage) ==
    IF outage # "none" THEN Raise("ClientError")
    ELSE IF p.ss \in {"absent", "empty"} THEN Raise("ValueError")
    ELSE IF p.ss = "notjson" THEN Raise("ValueError")
    ELSE IF p.top # "object" THEN Raise("AttributeError")
    ELSE IF Falsy(p) THEN Raise("ValueError")
    ELSE IF p.field # "list" THEN Raise("ValueError")
    ELSE IF ValidKeys(p.items) = <<>> THEN Raise("ValueError")
    ELSE Return(ValidKeys(p.items))

\* Variant: the handler is `except ClientError`.
IsException_OnlyClientError(kind) == kind = "ClientError"

\* Exceptions that `except Exception` catches (CancelledError is a
\* BaseException and is not among them).
IsException(kind) == kind \in {"ClientError", "ValueError", "AttributeError"}

\* set(keys)
SetOf(keys) == {keys[i] : i \in 1..Len(keys)}

\* ------------------------------------------------ the Authorization header
Bearer == <<"B", "e", "a", "r", "e", "r">>
BearerLower == <<"b", "e", "a", "r", "e", "r">>
BearerUpper == <<"B", "E", "A", "R", "E", "R">>
Basic == <<"B", "a", "s", "i", "c">>

\* request.headers.get("Authorization"): None when the header is absent.
NoHeader == [present |-> FALSE, v |-> EmptyStr]
Header(s) == [present |-> TRUE, v |-> s]

Headers ==
    { NoHeader,
      Header(EmptyStr),
      Header(Bearer \o <<SP>> \o K1),
      Header(BearerLower \o <<SP>> \o K2),
      Header(BearerUpper \o <<SP, TAB>> \o K1),
      Header(Bearer \o <<SP>> \o K3),
      Header(Basic \o <<SP>> \o K1),
      Header(Bearer),
      Header(Bearer \o <<SP>> \o K1 \o <<SP>> \o K2) }

\* str.lower() on the letters that occur.
LowerChar(c) ==
    CASE c = "B" -> "b" [] c = "E" -> "e" [] c = "A" -> "a"
      [] c = "R" -> "r" [] OTHER -> c

Lower(s) == [i \in 1..Len(s) |-> LowerChar(s[i])]

\* str.split(): the maximal runs of non-whitespace characters, in order.
RECURSIVE SplitFrom(_, _, _)
SplitFrom(s, i, word) ==
    IF i > Len(s)
    THEN IF word = EmptyStr THEN <<>> ELSE <<word>>
    ELSE IF s[i] \in Whitespace
         THEN IF word = EmptyStr
              THEN SplitFrom(s, i + 1, EmptyStr)
              ELSE <<word>> \o SplitFrom(s, i + 1, EmptyStr)
         ELSE SplitFrom(s, i + 1, Append(word, s[i]))

Split(s) == SplitFrom(s, 1, EmptyStr)

\* AuthMiddleware._extract_bearer_token: the token, or None.
NoToken == [some |-> FALSE, v |-> EmptyStr]
Token(s) == [some |-> TRUE, v |-> s]

\* Variant: the scheme is compared without lower().
ExtractBearerToken_CaseSensitive(auth_header) ==
    LET parts == Split(auth_header)
    IN  IF Len(parts) # 2 \/ parts[1] # Bearer
        THEN NoToken
        ELSE Token(parts[2])

ExtractBearerToken(auth_header) ==
    LET parts == Split(auth_header)
    IN  IF Len(parts) # 2 \/ Lower(parts[1]) # BearerLower
        THEN NoToken
        ELSE Token(parts[2])

\* ------------------------------------------------------------------ paths
PathMessages == <<"/", "a", "p", "i", "/", "v", "1", "/", "m", "e", "s", "s", "a", "g", "e", "s">>
PathHealth == <<"/", "h", "e", "a", "l", "t", "h">>
PathPublicMessages == <<"/", "a", "p", "i", "/", "p", "u", "b", "l", "i", "c", "/", "m", "e", "s", "s", "a", "g", "e", "s">>
PathRoot == <<"/">>
PathApiOther == <<"/", "a", "p", "i", "/", "a", "d", "m", "i", "n">>

Paths == {PathMessages, PathHealth, PathPublicMessages, PathRoot, PathApiOther}

PrefixHealth == <<"/", "h", "e", "a", "l", "t", "h">>
PrefixPublic == <<"/", "a", "p", "i", "/", "p", "u", "b", "l", "i", "c", "/">>
PrefixWellKnown == <<"/", ".", "w", "e", "l", "l", "-", "k", "n", "o", "w", "n", "/">>
PrefixDocs == <<"/", "d", "o", "c", "s">>
PrefixRedoc == <<"/", "r", "e", "d", "o", "c">>
PrefixOpenapi == <<"/", "o", "p", "e", "n", "a", "p", "i", ".", "j", "s", "o", "n">>
PrefixApi == <<"/", "a", "p", "i", "/">>

public_paths ==
    {PrefixHealth, PrefixPublic, PrefixWellKnown, PrefixDocs, PrefixRedoc,
     PrefixOpenapi}

\* str.startswith
StartsWith(s, prefix) ==
    /\ Len(prefix) <= Len(s)
    /\ SubSeq(s, 1, Len(prefix)) = prefix

\* Variant: only the listed prefixes are public.
IsPublicEndpoint_PrefixesOnly(path) ==
    \E prefix \in public_paths : StartsWith(path, prefix)

\* AuthMiddleware._is_public_endpoint
IsPublicEndpoint(path) ==
    \/ \E prefix \in public_paths : StartsWith(path, prefix)
    \/ ~StartsWith(path, PrefixApi)

\* ------------------------------------------------------------------ state
VARIABLES
    api_keys_cache,  \* _api_keys_cache: the set of valid keys
    refresh_task,    \* _refresh_task: NoneTask or the id of an asyncio task
    tasks,           \* the tasks created for refresh_api_keys_periodically
    load,            \* the activation of load_api_keys
    app,             \* phase of the application (lifespan) or "harness"
    running,         \* the coroutine that holds the event loop, or Idle
    secret,          \* what Secrets Manager holds now
    req,             \* the request passing through AuthMiddleware.dispatch
    log,             \* the last entry auth.py's key-lifecycle code logged
    inflight,        \* history: the fetches begun and not ended, oldest first
    overtaken,       \* history: in-flight fetches begun before a later write
    staleWrite,      \* history: an overtaken fetch wrote its result
    lastFetched,     \* history: payload of the last completed replacement
    replaced,        \* history: the cache that replacement replaced
    lastStop         \* history: the last call of stop_key_refresh_task

fetches == <<inflight, overtaken, staleWrite, lastFetched, replaced>>
history == <<fetches, lastStop>>

\* The state of the key lifecycle and of the authentication middleware.
auth == <<api_keys_cache, refresh_task, tasks, load, app, running, secret,
          req, log, history>>

VARIABLES
    log_level,       \* config.log_level: the level of the root logger
    storage,         \* the limiter's memory storage: hits per limit key
    admitted,        \* history: requests per limit key whose handler ran
    http,            \* the last request a route answered, and its response
    applog,          \* the log entries that request produced
    resp             \* the last outcome of a handler and the response to it

limiterVars == <<log_level, storage, admitted, http, applog, resp>>

VARIABLES
    table,           \* the items of the DynamoDB table
    now,             \* the reading of the clock (datetime.now)
    start_key_check, \* what the store does with a partial ExclusiveStartKey
    lastList,        \* history: the last call of list_messages and its result
    walk             \* history: a client paging through the messages

storeVars == <<table, now, start_key_check, lastList, walk>>

\* The state behind the routes.
web == <<limiterVars, storeVars>>

vars == <<api_keys_cache, refresh_task, tasks, load, app, running, secret,
          req, log, inflight, overtaken, staleWrite, lastFetched, replaced,
          lastStop, log_level, storage, admitted, http, applog, resp, table,
          now, start_key_check, lastList, walk>>

NoneTask == 0
TaskIds == 1..MaxTasks

Idle == <<"idle", 0>>
TaskCo(t) == <<"task", t>>
Loader == <<"load", 0>>

NoPayload == Payload("none", "null", "absent", <<>>)
NoKeys == <<>>

NotCreated == [pc |-> "none", cancel |-> FALSE, keys |-> NoKeys, src |-> NoPayload]
NewTask == [pc |-> "created", cancel |-> FALSE, keys |-> NoKeys, src |-> NoPayload]
LoadIdle == [pc |-> "idle", keys |-> NoKeys, src |-> NoPayload]

LogEntry(level, event) == [level |-> level, event |-> event, error |-> "none"]
\* logger.error(event, error=str(e)): the entry names the exception.
LogError(event, exc) == [level |-> "error", event |-> event, error |-> exc]
NoLog == LogEntry("none", "none")

\* What a call of stop_key_refresh_task did: whether it called cancel() on
\* the task and the level of the entry it logged ("none": it logged nothing).
\* n alternates from call to call, so that two calls in a row are two steps.
NoStop == [n |-> 0, called |-> FALSE, cancelled |-> FALSE, logged |-> "none"]
StopCall(cancelled, logged) ==
    [n |-> 1 - lastStop.n, called |-> TRUE, cancelled |-> cancelled,
     logged |-> logged]


Created == {t \in TaskIds : tasks[t].pc # "none"}

\* asyncio.Task.done()
Done(t) == tasks[t].pc = "done"

\* A task that was created and has not finished.
Alive == {t \in TaskIds : tasks[t].pc \notin {"none", "done"}}

\* The keys a payload lists: its non-empty strings.
KeysIn(p) ==
    {p.items[i].v : i \in {j \in DOMAIN p.items :
                              p.items[j].t = "str" /\ p.items[j].v # EmptyStr}}

\* ------------------------------------------------------------ history
RECURSIVE Without(_, _)
Without(q, f) ==
    IF q = <<>> THEN <<>>
    ELSE IF Head(q) = f THEN Without(Tail(q), f)
    ELSE <<Head(q)>> \o Without(Tail(q), f)

StartedBefore(f) ==
    {inflight[i] : i \in {j \in DOMAIN inflight :
                            \E k \in DOMAIN inflight : k > j /\ inflight[k] = f}}

FetchBegins(f) ==
    /\ inflight' = Append(inflight, f)
    /\ UNCHANGED <<overtaken, staleWrite, lastFetched, replaced, lastStop>>

FetchEndsUnwritten(f) ==
    /\ inflight' = Without(inflight, f)
    /\ overtaken' = overtaken \ {f}
    /\ UNCHANGED <<staleWrite, lastFetched, replaced, lastStop>>

FetchWritten(f, src) ==
    /\ inflight' = Without(inflight, f)
    /\ overtaken' = (overtaken \cup StartedBefore(f)) \ {f}
    /\ staleWrite' = (staleWrite \/ f \in overtaken)
    /\ lastFetched' = src
    /\ replaced' = api_keys_cache
    /\ UNCHANGED lastStop

\* ---------------------------------------------------- the event loop
\* Variant: the fetch awaits its I/O and frees the loop meanwhile.
LoopDuringFetch_Yields(f) == Idle

\* Who holds the event loop while coroutine f is inside fetch_api_keys: the
\* coroutine itself, since the boto3 call is synchronous and fetch_api_keys
\* awaits nothing.
LoopDuringFetch(f) == f

\* Variant: the cache is cleared and then refilled in place.
CacheWhileBuilding_Clears(old) == {}

\* `_api_keys_cache = set(keys)`: the global while the new set is being built
\* (untouched), and the set it is rebound to.
CacheWhileBuilding(old) == old

\* Variant: the new keys are added to the set in place (an update, not a
\* replacement).
ReplaceCache_Merges(old, keys) == old \cup SetOf(keys)

ReplaceCache(old, keys) == SetOf(keys)

\* Variant: the except branch resets the cache.
CacheAfterFailedRefresh_Clears(old) == {}

\* The except branch of the refresh loop leaves the cache alone.
CacheAfterFailedRefresh(old) == old

\* Variant: the try/except encloses the loop, so a failure leaves the loop.
PcAfterRefreshFailure_Exits == "done"

\* Where the task continues once the handler has logged: the `while True`
\* loop goes on to the next asyncio.sleep.
PcAfterRefreshFailure == "sleep"

\* Variant: the membership test accepts every token.
IsValidApiKey_AcceptsAll(token) == TRUE

\* AuthMiddleware._is_valid_api_key
IsValidApiKey(token) == token \in api_keys_cache

\* ------------------------------------------- start / stop of the refresher
\* Variant: the test of `_refresh_task.done()` is missing: every call creates
\* a task.
StartKeyRefreshTask_IgnoresDone ==
    /\ Cardinality(Created) < MaxTasks
    /\ LET new == Cardinality(Created) + 1
       IN  /\ tasks' = [tasks EXCEPT ![new] = NewTask]
           /\ refresh_task' = new
    /\ log' = LogEntry("info", "key_refresh_task_started")

\* start_key_refresh_task
StartKeyRefreshTask ==
    IF refresh_task = NoneTask \/ Done(refresh_task)
    THEN /\ Cardinality(Created) < MaxTasks
         /\ LET new == Cardinality(Created) + 1
            IN  /\ tasks' = [tasks EXCEPT ![new] = NewTask]
                /\ refresh_task' = new
         /\ log' = LogEntry("info", "key_refresh_task_started")
    ELSE /\ log' = LogEntry("warning", "key_refresh_task_already_running")
         /\ UNCHANGED <<tasks, refresh_task>>

\* Variant: the handle is reset once the task is cancelled.
StopKeyRefreshTask_ClearsHandle ==
    IF refresh_task # NoneTask /\ ~Done(refresh_task)
    THEN /\ tasks' = [tasks EXCEPT ![refresh_task].cancel = TRUE]
         /\ log' = LogEntry("info", "key_refresh_task_stopped")
         /\ refresh_task' = NoneTask
         /\ lastStop' = StopCall(TRUE, "info")
    ELSE /\ lastStop' = StopCall(FALSE, "none")
         /\ UNCHANGED <<tasks, refresh_task, log>>

\* stop_key_refresh_task: a task that is not done is cancelled (again, if it
\* was cancelled before and has not run since); otherwise nothing happens and
\* nothing is logged.
StopKeyRefreshTask ==
    IF refresh_task # NoneTask /\ ~Done(refresh_task)
    THEN /\ tasks' = [tasks EXCEPT ![refresh_task].cancel = TRUE]
         /\ log' = LogEntry("info", "key_refresh_task_stopped")
         /\ lastStop' = StopCall(TRUE, "info")
         /\ UNCHANGED refresh_task
    ELSE /\ lastStop' = StopCall(FALSE, "none")
         /\ UNCHANGED <<tasks, refresh_task, log>>

\* ------------------------------------------- refresh_api_keys_periodically
\* The task's first step: it logs and suspends in asyncio.sleep.
TaskFirstStep(t) ==
    /\ running = Idle
    /\ tasks[t].pc = "created"
    /\ ~tasks[t].cancel
    /\ tasks' = [tasks EXCEPT ![t].pc = "sleep"]
    /\ log' = LogEntry("info", "key_refresh_task_starting")
    /\ UNCHANGED <<api_keys_cache, refresh_task, load, app, running, secret,
                   req, history>>
    /\ UNCHANGED web

\* The interval elapsed: the task resumes and calls fetch_api_keys.
TimerFires(t) ==
    /\ running = Idle
    /\ tasks[t].pc = "sleep"
    /\ ~tasks[t].cancel
    /\ tasks' = [tasks EXCEPT ![t].pc = "fetch"]
    /\ running' = LoopDuringFetch(TaskCo(t))
    /\ log' = LogEntry("debug", "refreshing_api_keys")
    /\ FetchBegins(TaskCo(t))
    /\ UNCHANGED <<api_keys_cache, refresh_task, load, app, secret, req>>
    /\ UNCHANGED web

\* fetch_api_keys returns its list, or raises and the loop's handler logs.
RefreshFetchReturns(t) ==
    /\ tasks[t].pc = "fetch"
    /\ ~tasks[t].cancel
    /\ running = LoopDuringFetch(TaskCo(t))
    /\ \E outage \in Outages :
         LET r == FetchApiKeys(secret, outage)
         IN  IF r.ok
             THEN /\ tasks' = [tasks EXCEPT ![t].pc = "assign",
                                            ![t].keys = r.keys,
                                            ![t].src = secret]
                  /\ running' = TaskCo(t)
                  /\ api_keys_cache' = CacheWhileBuilding(api_keys_cache)
                  /\ UNCHANGED <<log, history>>
             ELSE IF IsException(r.exc)
             THEN /\ tasks' = [tasks EXCEPT ![t].pc = PcAfterRefreshFailure]
                  /\ running' = Idle
                  /\ api_keys_cache' = CacheAfterFailedRefresh(api_keys_cache)
                  /\ log' = LogError("api_keys_refresh_failed", r.exc)
                  /\ FetchEndsUnwritten(TaskCo(t))
             ELSE \* not caught: the exception ends the task
                  /\ tasks' = [tasks EXCEPT ![t].pc = "done"]
                  /\ running' = Idle
                  /\ FetchEndsUnwritten(TaskCo(t))
                  /\ UNCHANGED <<api_keys_cache, log>>
    /\ UNCHANGED <<refresh_task, load, app, secret, req>>
    /\ UNCHANGED web

\* `_api_keys_cache = set(keys)`, then back to asyncio.sleep.
RefreshAssign(t) ==
    /\ tasks[t].pc = "assign"
    /\ running = TaskCo(t)
    /\ api_keys_cache' = ReplaceCache(api_keys_cache, tasks[t].keys)
    /\ tasks' = [tasks EXCEPT ![t].pc = "sleep", ![t].keys = NoKeys,
                                   ![t].src = NoPayload]
    /\ running' = Idle
    /\ log' = LogEntry("info", "api_keys_refreshed")
    /\ FetchWritten(TaskCo(t), tasks[t].src)
    /\ UNCHANGED <<refresh_task, load, app, secret, req>>
    /\ UNCHANGED web

\* Variant: the loop's handler catches the CancelledError, logs it and goes
\* on to the next asyncio.sleep.
TaskCancelled_Swallowed(t) ==
    /\ running = Idle
    /\ tasks[t].pc \in {"created", "sleep", "fetch"}
    /\ tasks[t].cancel
    /\ tasks' = [tasks EXCEPT ![t].pc = "sleep", ![t].cancel = FALSE]
    /\ log' = LogError("api_keys_refresh_failed", "CancelledError")
    /\ IF tasks[t].pc = "fetch"
       THEN FetchEndsUnwritten(TaskCo(t))
       ELSE UNCHANGED history
    /\ UNCHANGED <<api_keys_cache, refresh_task, load, app, running, secret,
                   req>>
    /\ UNCHANGED web

\* A cancelled task gets CancelledError at its suspension point; the loop's
\* `except Exception` does not catch it and the task ends.
TaskCancelled(t) ==
    /\ running = Idle
    /\ tasks[t].pc \in {"created", "sleep", "fetch"}
    /\ tasks[t].cancel
    /\ tasks' = [tasks EXCEPT ![t].pc = "done", ![t].keys = NoKeys,
                                   ![t].src = NoPayload]
    /\ IF tasks[t].pc = "fetch"
       THEN FetchEndsUnwritten(TaskCo(t))
       ELSE UNCHANGED history
    /\ UNCHANGED <<api_keys_cache, refresh_task, load, app, running, secret,
                   req, log>>
    /\ UNCHANGED web

\* ------------------------------------------------------------ load_api_keys
LoadApiKeysBegin ==
    /\ running = Idle
    /\ load.pc = "idle"
    /\ load' = [load EXCEPT !.pc = "fetch"]
    /\ running' = LoopDuringFetch(Loader)
    /\ log' = LogEntry("info", "loading_api_keys")
    /\ FetchBegins(Loader)
    /\ UNCHANGED <<api_keys_cache, refresh_task, tasks, secret, req>>

\* load_api_keys is inside `await fetch_api_keys()`.
LoadFetchPending ==
    /\ load.pc = "fetch"
    /\ running = LoopDuringFetch(Loader)

\* fetch_api_keys returned a list.
LoadApiKeysFetched(r) ==
    /\ LoadFetchPending
    /\ r.ok
    /\ load' = [pc |-> "assign", keys |-> r.keys, src |-> secret]
    /\ running' = Loader
    /\ api_keys_cache' = CacheWhileBuilding(api_keys_cache)
    /\ UNCHANGED <<refresh_task, tasks, secret, req, log, history>>

\* fetch_api_keys raised: load_api_keys logs and re-raises.
LoadApiKeysRaises(r) ==
    /\ LoadFetchPending
    /\ ~r.ok
    /\ load' = LoadIdle
    /\ running' = Idle
    /\ log' = LogError("api_keys_load_failed", r.exc)
    /\ FetchEndsUnwritten(Loader)
    /\ UNCHANGED <<api_keys_cache, refresh_task, tasks, secret, req>>

\* `_api_keys_cache = set(keys)` in load_api_keys (log, tasks and
\* refresh_task are set by what the caller does next in the same step).
LoadApiKeysAssign ==
    /\ load.pc = "assign"
    /\ running = Loader
    /\ api_keys_cache' = ReplaceCache(api_keys_cache, load.keys)
    /\ load' = LoadIdle
    /\ running' = Idle
    /\ FetchWritten(Loader, load.src)
    /\ UNCHANGED <<secret, req>>

\* ------------------------------------------------------ lifespan (main.py)
\* Startup calls load_api_keys.
LifespanStartup ==
    /\ app = "boot"
    /\ app' = "starting"
    /\ LoadApiKeysBegin
    /\ UNCHANGED web

\* Variant: the error of load_api_keys is logged and startup goes on.
LifespanLoadReturns_Swallows ==
    /\ app = "starting"
    /\ \E outage \in Outages :
         LET r == FetchApiKeys(secret, outage)
         IN  \/ LoadApiKeysFetched(r) /\ UNCHANGED app
             \/ LoadApiKeysRaises(r) /\ app' = "serving"
    /\ UNCHANGED web

\* The startup fetch returns, or raises: the error leaves lifespan and the
\* server exits without serving.
LifespanLoadReturns ==
    /\ app = "starting"
    /\ \E outage \in Outages :
         LET r == FetchApiKeys(secret, outage)
         IN  \/ LoadApiKeysFetched(r) /\ UNCHANGED app
             \/ LoadApiKeysRaises(r) /\ app' = "aborted"
    /\ UNCHANGED web

\* The cache is installed, the refresh task is started and the application
\* yields to serve requests.
LifespanStartupCompletes ==
    /\ app = "starting"
    /\ LoadApiKeysAssign
    /\ StartKeyRefreshTask
    /\ app' = "serving"
    /\ UNCHANGED web

\* Shutdown calls stop_key_refresh_task.
LifespanShutdown ==
    /\ app = "serving"
    /\ running = Idle
    /\ StopKeyRefreshTask
    /\ app' = "shutdown"
    /\ UNCHANGED <<api_keys_cache, load, running, secret, req, fetches>>
    /\ UNCHANGED web

\* ------------------------------------------- direct callers of the module
CallLoadApiKeys ==
    /\ app = "harness"
    /\ LoadApiKeysBegin
    /\ UNCHANGED app
    /\ UNCHANGED web

CallLoadReturns ==
    /\ app = "harness"
    /\ \E outage \in Outages :
         LET r == FetchApiKeys(secret, outage)
         IN  LoadApiKeysFetched(r) \/ LoadApiKeysRaises(r)
    /\ UNCHANGED app
    /\ UNCHANGED web

CallLoadAssign ==
    /\ app = "harness"
    /\ LoadApiKeysAssign
    /\ log' = LogEntry("info", "api_keys_loaded")
    /\ UNCHANGED <<refresh_task, tasks, app>>
    /\ UNCHANGED web

CallStart ==
    /\ app = "harness"
    /\ running = Idle
    /\ StartKeyRefreshTask
    /\ UNCHANGED <<api_keys_cache, load, app, running, secret, req, history>>
    /\ UNCHANGED web

CallStop ==
    /\ app = "harness"
    /\ running = Idle
    /\ StopKeyRefreshTask
    /\ UNCHANGED <<api_keys_cache, load, app, running, secret, req, fetches>>
    /\ UNCHANGED web

\* ------------------------------------------------- AuthMiddleware.dispatch
\* hash_api_key: "anonymous" for an empty key, else a tag over the digest of
\* the key (the digest is not computed: it stands for sha256(key)[:8]).
Anonymous == [kind |-> "anonymous", of |-> EmptyStr]
HashApiKey(api_key) ==
    IF api_key = EmptyStr THEN Anonymous
    ELSE [kind |-> "api-key-hash", of |-> api_key]

Forward ==
    [forwarded |-> TRUE, status |-> "handler", code |-> "none",
     reason |-> "none", user |-> Anonymous]

Reject(code, reason, user) ==
    [forwarded |-> FALSE, status |-> "401", code |-> code,
     reason |-> reason, user |-> user]

\* The decision of dispatch for a path and an Authorization header.
Authorize(path, hdr) ==
    IF IsPublicEndpoint(path) THEN Forward
    ELSE IF ~hdr.present \/ hdr.v = EmptyStr
    THEN Reject("MISSING_AUTHORIZATION", "missing_authorization_header",
                Anonymous)
    ELSE LET token == ExtractBearerToken(hdr.v)
         IN  IF ~token.some \/ token.v = EmptyStr
             THEN Reject("INVALID_AUTHORIZATION_FORMAT",
                         "invalid_authorization_format", Anonymous)
             ELSE IF ~IsValidApiKey(token.v)
             THEN Reject("INVALID_API_KEY", "invalid_api_key",
                         HashApiKey(token.v))
             ELSE Forward

NoReq ==
    [active |-> FALSE, path |-> EmptyStr, hdr |-> NoHeader, out |-> Forward]

Dispatch(path, hdr) ==
    /\ app = "serving"
    /\ running = Idle
    /\ ~req.active
    /\ req' = [active |-> TRUE, path |-> path, hdr |-> hdr,
               out |-> Authorize(path, hdr)]
    /\ UNCHANGED <<api_keys_cache, refresh_task, tasks, load, app, running,
                   secret, log, history>>
    /\ UNCHANGED web

\* The response of the request in flight is sent.
Respond ==
    /\ req.active
    /\ req' = NoReq
    /\ UNCHANGED <<api_keys_cache, refresh_task, tasks, load, app, running,
                   secret, log, history>>
    /\ UNCHANGED web

\* ------------------------------------------------------------ environment
\* An operator changes the secret in Secrets Manager.
SetSecret(p) ==
    /\ app \in {"starting", "serving", "harness"}
    /\ p # secret
    /\ secret' = p
    /\ UNCHANGED <<api_keys_cache, refresh_task, tasks, load, app, running,
                   req, log, history>>
    /\ UNCHANGED web

\* ------------------------------------------- rate limiting (rate_limit.py)
\* config.rate_limit_per_minute (RATE_LIMIT_PER_MINUTE, a positive integer).
rate_limit_per_minute == 2

\* auth_header[7:] and api_key[:8]
BearerPrefixLen == 7
KeyPrefixLen == 8

BearerSpace == Bearer \o <<SP>>
ApiKeyTag == <<"a", "p", "i", "_", "k", "e", "y", ":">>
IpTag == <<"i", "p", ":">>

\* request.client.host
Ips == {<<"1">>, <<"2">>}

\* s[n:] and s[:n]
Drop(s, n) == SubSeq(s, n + 1, Len(s))
Take(s, n) == SubSeq(s, 1, IF Len(s) < n THEN Len(s) ELSE n)

\* A log entry of the request path.  via: the logging library ("logging":
\* the standard library, filtered by the level of the root logger;
\* "structlog": not configured, it prints every level).  user: a hash_api_key
\* value; text: the text the entry interpolates.
NoUser == [kind |-> "none", of |-> EmptyStr]
AppEntry(level, via, event, reason, user, text) ==
    [level |-> level, via |-> via, event |-> event, reason |-> reason,
     user |-> user, text |-> text]

LogLevels == {"DEBUG", "INFO"}

LevelNo(level) ==
    CASE level \in {"debug", "DEBUG"} -> 10
      [] level \in {"info", "INFO"} -> 20
      [] level \in {"warning", "WARNING"} -> 30
      [] OTHER -> 40

\* The entries that reach the output.
Emitted(entries) ==
    {e \in entries :
        e.via = "structlog" \/ LevelNo(e.level) >= LevelNo(log_level)}

\* get_api_key_identifier: the bucket, and the debug entry it logs.
GetApiKeyIdentifier(hdr, ip) ==
    LET auth_header == IF hdr.present THEN hdr.v ELSE EmptyStr
        api_key == Drop(auth_header, BearerPrefixLen)
    IN  IF StartsWith(auth_header, BearerSpace) /\ api_key # EmptyStr
        THEN [bucket |-> ApiKeyTag \o api_key,
              entry |-> AppEntry("debug", "logging", "rate_limiting_by_api_key",
                                 "none", NoUser, Take(api_key, KeyPrefixLen))]
        ELSE [bucket |-> IpTag \o ip,
              entry |-> AppEntry("debug", "logging", "rate_limiting_by_ip",
                                 "none", NoUser, ip)]

\* Variant: every path under /api/ is subject to rate limiting.
ShouldApplyRateLimit_AllApi(path) ==
    StartsWith(path, PrefixApi)

\* should_apply_rate_limit: the path starts with an authenticated prefix.
ShouldApplyRateLimit(path) ==
    \E prefix \in {PrefixApi \o <<"v", "1", "/">>} : StartsWith(path, prefix)

\* The routes of a2a.py that carry @limiter.limit(get_rate_limit_string()).
PathMessage == PathMessages \o <<"/", "7">>
RouteCreateMessage ==
    [name |-> "create_message", method |-> "POST", path |-> PathMessages]
RouteListMessages ==
    [name |-> "list_messages", method |-> "GET", path |-> PathMessages]
RouteGetMessage ==
    [name |-> "get_message", method |-> "GET", path |-> PathMessage]
LimitedRoutes == {RouteCreateMessage, RouteListMessages, RouteGetMessage}

\* The Authorization headers of the requests to the routes.
HttpHeaders ==
    { NoHeader,
      Header(Bearer \o <<SP>> \o K1),
      Header(Bearer \o <<SP, SP>> \o K1),
      Header(BearerUpper \o <<SP, TAB>> \o K1),
      Header(BearerLower \o <<SP>> \o K2) }

\* The keys of the limiter's storage: a route limit is counted per value of
\* the key function and per decorated endpoint.
Buckets ==
    {GetApiKeyIdentifier(hdr, ip).bucket : hdr \in HttpHeaders, ip \in Ips}
LimitKeys == Buckets \X {r.name : r \in LimitedRoutes}

RECURSIVE HitsOf(_)
HitsOf(keys) ==
    IF keys = {} THEN 0
    ELSE LET k == CHOOSE x \in keys : TRUE
         IN  storage[k] + HitsOf(keys \ {k})

\* The hits the storage holds over all its keys.
TotalHits == HitsOf(LimitKeys)

\* limiter.hit for "N/minute": the request is admitted when the hits of its
\* key in the current window, this one included, do not exceed N.
LimiterHit(count) == count <= rate_limit_per_minute

NoHttp ==
    [status |-> "none", code |-> "none", ran |-> FALSE, endpoint |-> "none",
     bucket |-> EmptyStr, cred |-> EmptyStr]

\* Variant: the limiter counts the request before dispatch decides on it.
HandleRequest_LimiterFirst(route, hdr, ip) ==
    /\ app = "serving"
    /\ running = Idle
    /\ TotalHits <= rate_limit_per_minute
    /\ LET out == Authorize(route.path, hdr)
           id == GetApiKeyIdentifier(hdr, ip)
           k == <<id.bucket, route.name>>
       IN  /\ storage' = [storage EXCEPT ![k] = @ + 1]
           /\ applog' = Emitted({id.entry})
           /\ http' = [status |-> out.status, code |-> out.code,
                       ran |-> out.forwarded, endpoint |-> route.name,
                       bucket |-> id.bucket, cred |-> EmptyStr]
           /\ admitted' = IF out.forwarded
                          THEN [admitted EXCEPT ![k] = @ + 1]
                          ELSE admitted
    /\ UNCHANGED <<auth, log_level, resp, storeVars>>

\* A request to a rate-limited route: AuthMiddleware.dispatch, then the
\* limiter's check in the route's wrapper, then the handler.  The check, the
\* count and the handler's start follow each other without a suspension.
HandleRequest(route, hdr, ip) ==
    /\ app = "serving"
    /\ running = Idle
    /\ LET out == Authorize(route.path, hdr)
           id == GetApiKeyIdentifier(hdr, ip)
           k == <<id.bucket, route.name>>
           count == storage[k] + 1
       IN  IF ~out.forwarded
           THEN /\ http' = [status |-> out.status, code |-> out.code,
                            ran |-> FALSE, endpoint |-> route.name,
                            bucket |-> EmptyStr, cred |-> EmptyStr]
                /\ applog' = Emitted({AppEntry("warning", "structlog",
                                               "auth_failed", out.reason,
                                               out.user, EmptyStr)})
                /\ UNCHANGED <<storage, admitted>>
           ELSE /\ TotalHits <= rate_limit_per_minute
                /\ storage' = [storage EXCEPT ![k] = count]
                /\ applog' = Emitted({id.entry})
                /\ IF LimiterHit(count)
                   THEN /\ http' = [status |-> "handler", code |-> "none",
                                    ran |-> TRUE, endpoint |-> route.name,
                                    bucket |-> id.bucket,
                                    cred |-> ExtractBearerToken(hdr.v).v]
                        /\ admitted' = [admitted EXCEPT ![k] = @ + 1]
                   ELSE /\ http' = [status |-> "429",
                                    code |-> "Rate limit exceeded",
                                    ran |-> FALSE, endpoint |-> route.name,
                                    bucket |-> id.bucket,
                                    cred |-> ExtractBearerToken(hdr.v).v]
                        /\ UNCHANGED admitted
    /\ UNCHANGED <<auth, log_level, resp, storeVars>>

\* ------------------------------------------- the handlers' error responses
\* The routes of a2a.py and public.py.
Routes ==
    LimitedRoutes \cup
       { [name |-> "get_public_messages", method |-> "GET",
          path |-> PathPublicMessages],
         [name |-> "health_check", method |-> "GET", path |-> PathHealth],
         [name |-> "get_capabilities", method |-> "GET",
          path |-> PrefixWellKnown \o <<"a", "g", "e", "n", "t", ".", "j", "s", "o", "n">>] }

\* How the work of a handler ends: it returns, the storage call raises a
\* ClientError with the error code of DynamoDB, or something raises another
\* exception.
Outcomes ==
    { [kind |-> "ok", code |-> "none"],
      [kind |-> "ClientError",
       code |-> "ProvisionedThroughputExceededException"],
      [kind |-> "ClientError", code |-> "ResourceNotFoundException"],
      [kind |-> "ClientError", code |-> "ValidationException"],
      [kind |-> "Exception", code |-> "EndpointConnectionError"],
      [kind |-> "Exception", code |-> "KeyError"] }

NoResp ==
    [endpoint |-> "none", outcome |-> [kind |-> "none", code |-> "none"],
     traced |-> FALSE, status |-> "none", code |-> "none",
     cause |-> "none", details_trace |-> FALSE, header_trace |-> FALSE,
     logged |-> "none"]

\* Variant: the handler puts the error code of the storage in the body.
RouteResponse_ShowsCause(route, outcome, traced) ==
    [endpoint |-> route.name, outcome |-> outcome, traced |-> traced,
     status |-> IF outcome.kind = "ok" THEN "200" ELSE "500",
     code |-> IF outcome.kind = "ok" THEN "none" ELSE "DATABASE_ERROR",
     cause |-> outcome.code, details_trace |-> FALSE,
     header_trace |-> traced, logged |-> outcome.code]

\* The response to a request whose handler ended with the outcome.  traced:
\* get_current_trace_id() has a trace id to give.  The four message handlers
\* catch ClientError and Exception and raise an HTTPException with a fixed
\* body, which passes TraceIdMiddleware; an exception of another handler
\* reaches global_exception_handler, whose response does not.
RouteResponse(route, outcome, traced) ==
    LET caught == route.name \in {"create_message", "list_messages",
                                  "get_message", "get_public_messages"}
        answer(status, code, details_trace, header_trace) ==
            [endpoint |-> route.name, outcome |-> outcome, traced |-> traced,
             status |-> status, code |-> code, cause |-> "none",
             details_trace |-> details_trace, header_trace |-> header_trace,
             logged |-> outcome.code]
    IN  IF outcome.kind = "ok"
        THEN answer(IF route.method = "POST" THEN "201" ELSE "200", "none",
                    FALSE, traced)
        ELSE IF caught /\ outcome.kind = "ClientError"
        THEN answer("500", "DATABASE_ERROR", FALSE, traced)
        ELSE IF caught
        THEN answer("500", "INTERNAL_ERROR", FALSE, traced)
        ELSE answer("500", "INTERNAL_ERROR", traced, FALSE)

\* A request to a route passes AuthMiddleware.dispatch and its handler runs
\* to an outcome; only the message handlers call the storage.
ServeRoute(route, hdr, outcome, traced) ==
    /\ app = "serving"
    /\ running = Idle
    /\ outcome.kind = "ClientError" =>
          route.name \notin {"health_check", "get_capabilities"}
    /\ LET out == Authorize(route.path, hdr)
       IN  resp' = IF out.forwarded
                   THEN RouteResponse(route, outcome, traced)
                   ELSE [NoResp EXCEPT !.endpoint = route.name,
                                       !.status = out.status,
                                       !.code = out.code]
    /\ UNCHANGED <<auth, log_level, storage, admitted, http, applog,
                   storeVars>>

\* The window of a limit key elapses: the storage forgets its hits.
WindowExpires(k) ==
    /\ storage[k] > 0
    /\ storage' = [storage EXCEPT ![k] = 0]
    /\ admitted' = [admitted EXCEPT ![k] = 0]
    /\ UNCHANGED <<auth, log_level, http, applog, resp, storeVars>>

\* ------------------------------------------- the message store (dynamodb.py)
\* None (and the empty string: `if start_key:`); the timestamps 1..MaxTime
\* stand for the ISO strings in their order.
NoneKey == 0

\* limit = min(max(1, limit), 100)
MinLimit == 1
MaxLimit == 100

\* Query(ge=1, le=100) of the route's limit parameter.
QueryGe == 1
QueryLe == 100

\* The values of limit and start_key a caller passes.
Limits == {-1, 0, 1, 2, 100, 1000}
StartKeys == NoneKey..MaxTime

\* Variant: the limit is only raised to the minimum.
ClampLimit_NoUpper(limit) == IF limit < MinLimit THEN MinLimit ELSE limit

ClampLimit(limit) ==
    LET raised == IF limit < MinLimit THEN MinLimit ELSE limit
    IN  IF raised > MaxLimit THEN MaxLimit ELSE raised

\* An item of the table: message_id is its hash key, timestamp its range key
\* and the sort key of timestamp-index.
Item(message_id, timestamp) ==
    [message_id |-> message_id, timestamp |-> timestamp]

\* ScanIndexForward = False: the later timestamp first (the higher id first
\* among equal timestamps).
Later(a, b) ==
    \/ a.timestamp > b.timestamp
    \/ a.timestamp = b.timestamp /\ a.message_id > b.message_id

RECURSIVE Descending(_)
Descending(items) ==
    IF items = {} THEN <<>>
    ELSE LET first == CHOOSE a \in items :
                         \A b \in items \ {a} : Later(a, b)
         IN  <<first>> \o Descending(items \ {first})

\* table.query on timestamp-index with the ExclusiveStartKey the service
\* builds, {entity_type, timestamp}.  The key lacks message_id, the hash key
\* of the table: DynamoDB rejects it with a ValidationException; a store
\* that accepts it resumes after the timestamp.  LastEvaluatedKey is set
\* when the query stopped at Limit.
Query(Limit, ExclusiveStartKey) ==
    IF ExclusiveStartKey # NoneKey /\ start_key_check = "rejects"
    THEN [ok |-> FALSE, Items |-> <<>>, LastEvaluatedKey |-> NoneKey]
    ELSE LET rest == SelectSeq(Descending(table),
                               LAMBDA m : \/ ExclusiveStartKey = NoneKey
                                          \/ m.timestamp < ExclusiveStartKey)
             page == Take(rest, Limit)
         IN  [ok |-> TRUE, Items |-> page,
              LastEvaluatedKey |->
                 IF page # <<>> /\ Len(page) = Limit
                 THEN page[Len(page)].timestamp
                 ELSE NoneKey]

\* Variant: next_key is the timestamp of the last message of every page that
\* has one.
ListMessages_AlwaysKey(limit, start_key) ==
    LET bounded == ClampLimit(limit)
        response == Query(bounded, start_key)
    IN  IF response.ok
        THEN [status |-> "ok", Limit |-> bounded, messages |-> response.Items,
              next_key |-> IF response.Items = <<>> THEN NoneKey
                           ELSE response.Items[Len(response.Items)].timestamp]
        ELSE [status |-> "ClientError", Limit |-> bounded, messages |-> <<>>,
              next_key |-> NoneKey]

\* DynamoDBService.list_messages: the messages and next_key, or ClientError.
ListMessages(limit, start_key) ==
    LET bounded == ClampLimit(limit)
        response == Query(bounded, start_key)
    IN  IF response.ok
        THEN [status |-> "ok", Limit |-> bounded, messages |-> response.Items,
              next_key |-> response.LastEvaluatedKey]
        ELSE [status |-> "ClientError", Limit |-> bounded, messages |-> <<>>,
              next_key |-> NoneKey]

NoList ==
    [called |-> FALSE, via |-> "none", limit |-> 0, start_key |-> NoneKey,
     status |-> "none", queried |-> FALSE, Limit |-> 0, returned |-> 0,
     stored |-> 0, next_key |-> NoneKey]

Listed(via, limit, start_key, status, r) ==
    [called |-> TRUE, via |-> via, limit |-> limit, start_key |-> start_key,
     status |-> status, queried |-> TRUE, Limit |-> r.Limit,
     returned |-> Len(r.messages), stored |-> Cardinality(table),
     next_key |-> r.next_key]

NoWalk ==
    [open |-> FALSE, limit |-> 0, seen |-> <<>>, pages |-> 0,
     next_key |-> NoneKey, ended |-> FALSE, failed |-> FALSE,
     dirty |-> FALSE, before |-> 0]

\* DynamoDBService.create_message: a new id, the timestamp of the clock.
CreateMessage ==
    /\ Cardinality(table) < MaxItems
    /\ table' = table \cup {Item(Cardinality(table) + 1, now)}
    /\ walk' = IF walk.open THEN [walk EXCEPT !.dirty = TRUE] ELSE walk
    /\ UNCHANGED <<now, start_key_check, lastList>>
    /\ UNCHANGED <<auth, limiterVars>>

\* The clock advances.
Tick ==
    /\ now < MaxTime
    /\ now' = now + 1
    /\ UNCHANGED <<table, start_key_check, lastList, walk>>
    /\ UNCHANGED <<auth, limiterVars>>

\* The walk after a call of list_messages: a call without start_key opens a
\* walk; a call with the walk's limit and the next_key of its last page as
\* start_key continues it; any other call leaves it.
Walked(limit, start_key, r) ==
    LET ids == [i \in 1..Len(r.messages) |-> r.messages[i].message_id]
        continues == /\ walk.open
                     /\ ~walk.ended
                     /\ ~walk.failed
                     /\ limit = walk.limit
                     /\ start_key = walk.next_key
    IN  IF start_key # NoneKey /\ ~continues
        THEN NoWalk
        ELSE [open |-> TRUE, limit |-> limit,
              seen |-> (IF start_key = NoneKey THEN <<>> ELSE walk.seen)
                          \o ids,
              pages |-> (IF start_key = NoneKey THEN 0 ELSE walk.pages) + 1,
              next_key |-> r.next_key,
              ended |-> r.status = "ok" /\ r.next_key = NoneKey,
              failed |-> r.status # "ok",
              dirty |-> start_key # NoneKey /\ walk.dirty,
              before |-> IF start_key = NoneKey THEN Cardinality(table)
                         ELSE walk.before]

\* A direct call of dynamodb_service.list_messages.
CallListMessages(limit, start_key) ==
    /\ LET r == ListMessages(limit, start_key)
       IN  /\ lastList' = Listed("service", limit, start_key, r.status, r)
           /\ walk' = Walked(limit, start_key, r)
    /\ UNCHANGED <<table, now, start_key_check>>
    /\ UNCHANGED <<auth, limiterVars>>

\* GET /api/v1/messages of an authenticated request within its rate limit:
\* FastAPI validates limit against Query(ge=1, le=100) and answers 422
\* without calling the handler; the handler calls the service and maps a
\* ClientError to a 500.
GetMessages(limit, start_key) ==
    /\ IF limit < QueryGe \/ limit > QueryLe
       THEN /\ lastList' = [NoList EXCEPT !.called = TRUE, !.via = "route",
                                          !.limit = limit,
                                          !.start_key = start_key,
                                          !.status = "422",
                                          !.stored = Cardinality(table)]
            /\ UNCHANGED walk
       ELSE LET r == ListMessages(limit, start_key)
            IN  /\ lastList' = Listed("route", limit, start_key,
                                      IF r.status = "ok" THEN "200"
                                      ELSE "500",
                                      r)
                /\ walk' = Walked(limit, start_key, r)
    /\ UNCHANGED <<table, now, start_key_check>>
    /\ UNCHANGED <<auth, limiterVars>>

\* ---------------------------------------------------------- specifications
StoreIdle ==
    /\ table = {}
    /\ now = 1
    /\ start_key_check = "rejects"
    /\ lastList = NoList
    /\ walk = NoWalk

LimiterIdle ==
    /\ storage = [k \in LimitKeys |-> 0]
    /\ admitted = [k \in LimitKeys |-> 0]
    /\ http = NoHttp
    /\ applog = {}
    /\ resp = NoResp

InitCommon ==
    /\ log_level = "INFO"
    /\ LimiterIdle
    /\ StoreIdle
    /\ api_keys_cache = {}
    /\ refresh_task = NoneTask
    /\ tasks = [t \in TaskIds |-> NotCreated]
    /\ load = LoadIdle
    /\ running = Idle
    /\ secret \in Payloads
    /\ req = NoReq
    /\ log = NoLog
    /\ inflight = <<>>
    /\ overtaken = {}
    /\ staleWrite = FALSE
    /\ lastFetched = NoPayload
    /\ replaced = {}
    /\ lastStop = NoStop

\* The application as main.py runs it.
Init == InitCommon /\ app = "boot"

Refresher ==
    \E t \in TaskIds :
        \/ TaskFirstStep(t)
        \/ TimerFires(t)
        \/ RefreshFetchReturns(t)
        \/ RefreshAssign(t)
        \/ TaskCancelled(t)

Next ==
    \/ LifespanStartup
    \/ LifespanLoadReturns
    \/ LifespanStartupCompletes
    \/ LifespanShutdown
    \/ Refresher
    \/ \E path \in Paths, hdr \in Headers : Dispatch(path, hdr)
    \/ Respond
    \/ \E p \in Payloads : SetSecret(p)

Spec == Init /\ [][Next]_vars

\* The functions of auth.py called directly, in any order, on a running loop.
InitApi == InitCommon /\ app = "harness"

NextApi ==
    \/ CallLoadApiKeys
    \/ CallLoadReturns
    \/ CallLoadAssign
    \/ CallStart
    \/ CallStop
    \/ Refresher
    \/ \E p \in Payloads : SetSecret(p)

SpecApi == InitApi /\ [][NextApi]_vars

\* The key lifecycle of the application with the scheduling asyncio
\* guarantees: a sleeping task that is not cancelled is resumed when its
\* interval has elapsed, a coroutine that holds the loop runs on to its
\* next suspension point, and a cancelled task is resumed with the
\* CancelledError at the loop's next iteration.  Requests are left out: dispatch neither holds the
\* loop across a step nor writes the key state.
LiveNext ==
    \/ LifespanStartup
    \/ LifespanLoadReturns
    \/ LifespanStartupCompletes
    \/ LifespanShutdown
    \/ Refresher
    \/ \E p \in Payloads : SetSecret(p)

\* The application serves: the startup load has installed the keys of the
\* secret and the refresh task sleeps in its first interval.
InitServing ==
    /\ secret \in GoodPayloads
    /\ api_keys_cache = SetOf(FetchApiKeys(secret, "none").keys)
    /\ refresh_task = 1
    /\ tasks = [t \in TaskIds |->
                  IF t = 1 THEN [NewTask EXCEPT !.pc = "sleep"]
                  ELSE NotCreated]
    /\ load = LoadIdle
    /\ app = "serving"
    /\ running = Idle
    /\ req = NoReq
    /\ log = LogEntry("info", "key_refresh_task_starting")
    /\ inflight = <<>>
    /\ overtaken = {}
    /\ staleWrite = FALSE
    /\ lastFetched = secret
    /\ replaced = {}
    /\ lastStop = NoStop

\* The paths and headers AuthMiddleware.dispatch is exercised with.
PathWellKnown ==
    PrefixWellKnown \o <<"a", "g", "e", "n", "t", ".", "j", "s", "o", "n">>
PathHealthz == PrefixHealth \o <<"z">>
PathApi == <<"/", "a", "p", "i">>
PathApiPublic == <<"/", "a", "p", "i", "/", "p", "u", "b", "l", "i", "c">>
PathStatic == <<"/", "a", "p", "p", ".", "j", "s">>

AllPaths ==
    Paths \cup {PathMessage, PathWellKnown, PrefixDocs, PrefixRedoc,
                PrefixOpenapi,
                PathHealthz, PathApi, PathApiPublic, PathStatic}

AuthHeaders ==
    Headers \cup HttpHeaders \cup
       { Header(<<SP>>),
         Header(Bearer \o <<SP>>),
         Header(Bearer \o K1),
         Header(Bearer \o <<SP>> \o K3),
         Header(Basic \o <<SP>> \o K2) }

InitAuth ==
    /\ InitServing
    /\ log_level = "INFO"
    /\ LimiterIdle
    /\ StoreIdle

NextAuth ==
    \/ \E path \in AllPaths, hdr \in AuthHeaders : Dispatch(path, hdr)
    \/ Respond

\* AuthMiddleware.dispatch on every path and header, for each key set.
SpecAuth == InitAuth /\ [][NextAuth]_vars

\* The rate-limited routes of the serving application, with the keys "a" and
\* "b" installed.
InitHttp ==
    /\ InitServing
    /\ secret = KeyList(<<StrElem(K1), StrElem(K2)>>)
    /\ log_level \in LogLevels
    /\ LimiterIdle
    /\ StoreIdle

NextHttp ==
    \/ \E route \in LimitedRoutes, hdr \in HttpHeaders, ip \in Ips :
          HandleRequest(route, hdr, ip)
    \/ \E k \in LimitKeys : WindowExpires(k)

SpecHttp == InitHttp /\ [][NextHttp]_vars

\* The rate-limited routes under requests of one client that dispatch
\* accepts or rejects: no header, the key "a", a key that is not in the
\* cache, another scheme.
SpecGate ==
    /\ InitHttp
    /\ [][ \/ \E route \in LimitedRoutes :
                \E hdr \in {NoHeader, Header(Bearer \o <<SP>> \o K1),
                             Header(Bearer \o <<SP>> \o K3),
                             Header(Basic \o <<SP>> \o K2)} :
                   HandleRequest(route, hdr, <<"1">>)
           \/ \E k \in LimitKeys : WindowExpires(k) ]_vars

\* The handlers of the serving application and the ways they end.
SpecRoutes ==
    /\ InitAuth
    /\ [][\E route \in Routes, outcome \in Outcomes, traced \in BOOLEAN :
             \E hdr \in {NoHeader, Header(Bearer \o <<SP>> \o K1)} :
                ServeRoute(route, hdr, outcome, traced)]_vars

\* The message store behind the serving application.
InitStore ==
    /\ InitServing
    /\ secret = KeyList(<<StrElem(K1), StrElem(K2)>>)
    /\ log_level = "INFO"
    /\ LimiterIdle
    /\ table = {}
    /\ now = 1
    /\ start_key_check \in {"rejects", "resumes"}
    /\ lastList = NoList
    /\ walk = NoWalk

NextStore ==
    \/ CreateMessage
    \/ Tick
    \/ \E limit \in Limits, start_key \in StartKeys :
          CallListMessages(limit, start_key)
    \/ \E limit \in Limits, start_key \in StartKeys :
          GetMessages(limit, start_key)

SpecStore == InitStore /\ [][NextStore]_vars

LiveSpec ==
    /\ Init
    /\ [][LiveNext]_vars
    /\ \A t \in TaskIds :
          /\ WF_vars(TimerFires(t))
          /\ WF_vars(RefreshFetchReturns(t))
          /\ WF_vars(RefreshAssign(t))
          /\ WF_vars(TaskCancelled(t))

\* =================================================================== claims
Tokens == {K1, K2, K3}

Protected(path) == ~IsPublicEndpoint(path)

\* C1: on a protected path dispatch forwards the request to the next handler
\* only if the Bearer token it extracted is in the key cache at the moment of
\* the check; in every other case the handler is not invoked and the response
\* is a 401.
C1_PassOnlyOnCacheHit ==
    [][ (~req.active /\ req'.active /\ Protected(req'.path)) =>
          /\ req'.out.forwarded =>
                /\ req'.hdr.present
                /\ ExtractBearerToken(req'.hdr.v).some
                /\ ExtractBearerToken(req'.hdr.v).v \in api_keys_cache
          /\ ~req'.out.forwarded => req'.out.status = "401" ]_vars

\* A request on a protected path was forwarded with a key of the cache.
C1_Witness ==
    /\ req.active
    /\ Protected(req.path)
    /\ req.out.forwarded
    /\ ExtractBearerToken(req.hdr.v).v \in api_keys_cache

\* C2: after any sequence of load_api_keys calls and refresh iterations,
\* _is_valid_api_key(k) holds exactly for the keys of the payload fetched by
\* the most recent completed replacement: nothing of an older fetch survives
\* and nothing of the latest is missing.
C2_CacheIsLatestFetch ==
    \A k \in Tokens : IsValidApiKey(k) <=> k \in KeysIn(lastFetched)

\* A completed replacement dropped a key that the replaced cache held.
C2_Witness ==
    /\ lastFetched # NoPayload
    /\ K1 \in replaced
    /\ ~IsValidApiKey(K1)
    /\ IsValidApiKey(K2)

\* C3: when the fetch of a refresh iteration raises, the key cache after the
\* failed iteration is the key cache before it.
C3_FailedRefreshKeepsCache ==
    [][ \A t \in TaskIds :
          (tasks[t].pc = "fetch" /\ tasks'[t].pc \notin {"fetch", "assign"})
             => api_keys_cache' = api_keys_cache ]_vars

\* A refresh has just failed while the application serves with keys loaded.
C3_Witness ==
    /\ app = "serving"
    /\ log.event = "api_keys_refresh_failed"
    /\ api_keys_cache # {}
    /\ \E t \in TaskIds : tasks[t].pc = "sleep"

\* C4: after a failed periodic fetch the loop is still running: unless the
\* task is cancelled it performs another fetch attempt, and a fetch that
\* succeeds ends with its result installed in the cache.
C4_LoopSurvivesFailure ==
    \A t \in TaskIds :
        /\ (log.event = "api_keys_refresh_failed" /\ refresh_task = t)
              ~> (tasks[t].pc = "fetch" \/ tasks[t].cancel)
        /\ (tasks[t].pc = "assign")
              ~> (tasks[t].pc = "sleep" /\ log.event = "api_keys_refreshed"
                  /\ api_keys_cache = KeysIn(lastFetched))

\* A refresh has just failed on the call to Secrets Manager; the task is not
\* cancelled and waits for its next interval.
C4_Witness ==
    /\ log.event = "api_keys_refresh_failed"
    /\ log.error = "ClientError"
    /\ \E t \in TaskIds :
         /\ refresh_task = t
         /\ tasks[t].pc = "sleep"
         /\ ~tasks[t].cancel

\* C5: when the startup fetch fails the error leaves the lifespan: the
\* application is aborted for good with no cache installed and no refresh
\* task created, and never serves.
C5_StartupFailureAborts ==
    /\ [](app = "aborted" =>
            /\ api_keys_cache = {}
            /\ refresh_task = NoneTask
            /\ Created = {})
    /\ [][ (app = "starting" /\ load.pc = "fetch" /\ load'.pc = "idle")
              => app' = "aborted" ]_vars
    /\ [][ app = "aborted" => app' = "aborted" ]_vars

\* The startup load has failed.
C5_Witness ==
    /\ app = "aborted"
    /\ log.event = "api_keys_load_failed"

\* C6: whenever requests are served (and after shutdown) the key cache is
\* not empty.
C6_ServingCacheNonEmpty ==
    app \in {"serving", "shutdown"} => api_keys_cache # {}

\* The application has stopped the refresher after a refresh replaced the
\* cache loaded at startup and a later refresh failed.
C6_Witness ==
    /\ app = "shutdown"
    /\ replaced # {}
    /\ \E t \in TaskIds : Done(t)

\* C7: a malformed secret payload makes fetch_api_keys raise, and a refresh
\* iteration that meets it keeps the previous cache, logs the failure and
\* goes back to sleep.
C7_MalformedPayloadIsFailure ==
    /\ [](\A p \in MalformedPayloads :
            /\ ~FetchApiKeys(p, "none").ok
            /\ FetchApiKeys(p, "none").exc \in
                  {"ValueError", "AttributeError"})
    /\ [][ \A t \in TaskIds :
             (/\ tasks[t].pc = "fetch"
              /\ tasks'[t].pc # "fetch"
              /\ secret \in MalformedPayloads)
             => /\ api_keys_cache' = api_keys_cache
                /\ tasks'[t].pc = "sleep"
                /\ ~tasks'[t].cancel
                /\ log'.event = "api_keys_refresh_failed" ]_vars

\* A refresh has failed on the payload (not on the call to Secrets Manager)
\* and the task sleeps again with the keys still loaded.
C7_Witness ==
    /\ log.event = "api_keys_refresh_failed"
    /\ log.error \in {"ValueError", "AttributeError"}
    /\ api_keys_cache # {}
    /\ \E t \in TaskIds : tasks[t].pc = "sleep" /\ ~tasks[t].cancel

\* C8: while the refresh task is replacing the cache, the cache a reader sees
\* is the complete previous key set, never empty or partly filled: every
\* header gets the decision the previous key set gives it; the replacement
\* then installs the complete new set in one step.
C8_ReaderSeesCompleteSnapshot ==
    /\ [](\A t \in TaskIds : tasks[t].pc = "assign" =>
            /\ api_keys_cache # {}
            /\ \A hdr \in Headers :
                 Authorize(PathMessages, hdr).forwarded
                    <=> /\ ExtractBearerToken(hdr.v).some
                        /\ ExtractBearerToken(hdr.v).v \in KeysIn(lastFetched))
    /\ [][ \A t \in TaskIds :
             (tasks[t].pc = "assign" /\ tasks'[t].pc # "assign")
                => api_keys_cache' = KeysIn(tasks[t].src) ]_vars

\* A replacement is in progress whose new key set differs from the cache.
C8_Witness ==
    /\ app = "serving"
    /\ \E t \in TaskIds :
         /\ tasks[t].pc = "assign"
         /\ SetOf(tasks[t].keys) # api_keys_cache

\* C9: at most one fetch is in flight at any time, over the refresh tasks and
\* the direct callers of load_api_keys, and no fetch writes its result after
\* a fetch that began later wrote its own.
C9_FetchesSerialized ==
    /\ Len(inflight) <= 1
    /\ ~staleWrite

\* A refresh task is inside its fetch after a direct load_api_keys completed.
C9_Witness ==
    /\ \E t \in TaskIds : inflight = <<TaskCo(t)>>
    /\ lastFetched # NoPayload
    /\ log.event = "refreshing_api_keys"

\* The lifecycle of the refresher, read off the task handle.
RefresherState ==
    IF refresh_task = NoneTask THEN "NotStarted"
    ELSE IF tasks[refresh_task].cancel \/ Done(refresh_task) THEN "Stopped"
    ELSE "Running"

\* C10 as stated: once stopped, no later start_key_refresh_task brings a
\* refresh task back to Running.
C10_NoRestartAfterStop ==
    [][ RefresherState = "Stopped" => RefresherState' = "Stopped" ]_vars

\* C10 amended: the lifecycle never returns to NotStarted, and it leaves
\* Stopped only by a start_key_refresh_task that finds the stopped task done
\* and creates a new one; a start before that leaves it Stopped.
C10_RestartOnlyAfterTermination ==
    [][ /\ RefresherState # "NotStarted" => RefresherState' # "NotStarted"
        /\ (RefresherState = "Stopped" /\ RefresherState' # "Stopped")
              => /\ Done(refresh_task)
                 /\ refresh_task' # refresh_task
                 /\ RefresherState' = "Running"
                 /\ log'.event = "key_refresh_task_started" ]_vars

\* A new task runs after an earlier task was stopped and terminated.
C10_Witness ==
    /\ RefresherState = "Running"
    /\ \E t \in TaskIds : t # refresh_task /\ tasks[t].cancel /\ Done(t)

\* C11 as stated: a call of stop_key_refresh_task made while no refresh task
\* is running (none was started, or the task was stopped before) requests no
\* cancellation, leaves the task handle, the tasks and the key cache as they
\* were, and logs a warning.
C11_NoopStopWarns ==
    [][ (lastStop' # lastStop /\ RefresherState # "Running") =>
          /\ ~lastStop'.cancelled
          /\ refresh_task' = refresh_task
          /\ tasks' = tasks
          /\ api_keys_cache' = api_keys_cache
          /\ lastStop'.logged = "warning" ]_vars

\* C11 amended: stop_key_refresh_task never changes the task handle or the
\* key cache.  With no task, or a task that has terminated, it requests no
\* cancellation and logs nothing.  With a task that is not done it calls
\* cancel() and logs key_refresh_task_stopped, also when the task was
\* cancelled before and has not terminated yet; that repeated call changes
\* no task.
C11_StopIsIdempotent ==
    [][ lastStop' # lastStop =>
          /\ refresh_task' = refresh_task
          /\ api_keys_cache' = api_keys_cache
          /\ RefresherState # "Running" => tasks' = tasks
          /\ IF refresh_task = NoneTask \/ Done(refresh_task)
             THEN /\ ~lastStop'.cancelled
                  /\ lastStop'.logged = "none"
                  /\ log' = log
             ELSE /\ lastStop'.cancelled
                  /\ tasks'[refresh_task].cancel
                  /\ \A t \in TaskIds \ {refresh_task} : tasks'[t] = tasks[t]
                  /\ lastStop'.logged = "info"
                  /\ log'.event = "key_refresh_task_stopped" ]_vars

\* A stop found the task it had cancelled terminated: it did nothing, and the
\* last entry logged is still the one of the stop that cancelled the task.
C11_Witness ==
    /\ lastStop.called
    /\ ~lastStop.cancelled
    /\ refresh_task # NoneTask
    /\ Done(refresh_task)
    /\ tasks[refresh_task].cancel
    /\ log.event = "key_refresh_task_stopped"

\* C12: a refresh task that stop_key_refresh_task cancelled terminates, and
\* it does so from the suspension point where the cancellation found it: it
\* does not wait for the interval, starts no fetch and writes no cache any
\* more.  The cancellation never finds a task inside a fetch or a
\* replacement, so the cache is the complete key set it was before the stop.
C12_StopTerminatesTask ==
    /\ \A t \in TaskIds : tasks[t].cancel ~> Done(t)
    /\ [](\A t \in TaskIds :
            tasks[t].cancel => tasks[t].pc \in {"created", "sleep", "done"})
    /\ [][ \A t \in TaskIds : tasks[t].cancel =>
             /\ tasks'[t].cancel
             /\ tasks'[t].pc \in {tasks[t].pc, "done"}
             /\ tasks'[t].pc # tasks[t].pc
                   => api_keys_cache' = api_keys_cache ]_vars

\* The application has shut down and the refresh task it cancelled in its
\* sleep has terminated.
C12_Witness ==
    /\ app = "shutdown"
    /\ lastStop.cancelled
    /\ refresh_task # NoneTask
    /\ Done(refresh_task)
    /\ api_keys_cache # {}

\* C13: while the fetch of a refresh task is in flight the event loop is free
\* for requests: a request that arrives while the application serves and no
\* other request is inside the middleware can be dispatched.
C13_FetchLeavesLoopFree ==
    \A t \in TaskIds :
        (tasks[t].pc = "fetch" /\ app = "serving" /\ ~req.active)
            => /\ running = Idle
               /\ ENABLED Dispatch(PathMessages, Header(Bearer \o <<SP>> \o K1))

\* C14: on a protected path the decision of dispatch is the first failing
\* check of a fixed order: an absent or empty Authorization header is
\* rejected with MISSING_AUTHORIZATION; a header that is not exactly two
\* whitespace-separated words of which the first is "bearer" in any letter
\* case is rejected with INVALID_AUTHORIZATION_FORMAT; a well-formed header
\* whose token is not in the key cache is rejected with INVALID_API_KEY; each
\* rejection is a 401, and every other request is forwarded.
C14_ProtectedPaths == {PathMessages, PathMessage, PathApiOther, PathApiPublic}

C14_Missing == {NoHeader, Header(EmptyStr)}

C14_Malformed ==
    { Header(Basic \o <<SP>> \o K1),
      Header(Basic \o <<SP>> \o K2),
      Header(Bearer),
      Header(Bearer \o <<SP>>),
      Header(Bearer \o K1),
      Header(<<SP>>),
      Header(Bearer \o <<SP>> \o K1 \o <<SP>> \o K2) }

C14_WellFormed ==
    { <<Header(Bearer \o <<SP>> \o K1), K1>>,
      <<Header(Bearer \o <<SP, SP>> \o K1), K1>>,
      <<Header(BearerUpper \o <<SP, TAB>> \o K1), K1>>,
      <<Header(BearerLower \o <<SP>> \o K2), K2>>,
      <<Header(Bearer \o <<SP>> \o K3), K3>> }

C14_Rejected(code) ==
    /\ ~req.out.forwarded
    /\ req.out.status = "401"
    /\ req.out.code = code

C14_DecisionOrder ==
    (req.active /\ req.path \in C14_ProtectedPaths) =>
        /\ req.hdr \in C14_Missing => C14_Rejected("MISSING_AUTHORIZATION")
        /\ req.hdr \in C14_Malformed =>
              C14_Rejected("INVALID_AUTHORIZATION_FORMAT")
        /\ \A w \in C14_WellFormed :
              req.hdr = w[1] =>
                 IF w[2] \in api_keys_cache
                 THEN req.out.forwarded /\ req.out.code = "none"
                 ELSE C14_Rejected("INVALID_API_KEY")
        /\ req.hdr \in
              C14_Missing \cup C14_Malformed \cup {w[1] : w \in C14_WellFormed}

\* A lower-case scheme with a key the cache does not hold was rejected on a
\* protected path.
C14_Witness ==
    /\ req.active
    /\ req.path = PathApiPublic
    /\ req.hdr = Header(BearerLower \o <<SP>> \o K2)
    /\ K2 \notin api_keys_cache
    /\ req.out.code = "INVALID_API_KEY"

\* C15: on a public path (one of the listed prefixes, or any path outside
\* /api/) dispatch forwards the request whatever the Authorization header
\* and the key cache are, and logs no authentication failure; so two requests
\* to the same public path get the same decision.
C15_PublicPaths ==
    {PathHealth, PathHealthz, PathPublicMessages, PathWellKnown, PrefixDocs,
     PrefixRedoc, PrefixOpenapi, PathRoot, PathApi, PathStatic}

C15_PublicAlwaysPasses ==
    (req.active /\ req.path \in C15_PublicPaths) =>
        /\ req.out.forwarded
        /\ req.out.status = "handler"
        /\ req.out.code = "none"
        /\ req.out.reason = "none"

\* A request without a usable credential was forwarded on a path that is
\* public only for lying outside /api/.
C15_Witness ==
    /\ req.active
    /\ req.path = PathStatic
    /\ req.hdr = Header(Bearer \o <<SP>> \o K3)
    /\ K3 \notin api_keys_cache
    /\ req.out.forwarded

\* s occurs in text.
Contains(text, s) ==
    \E i \in 1..(Len(text) - Len(s) + 1) : SubSeq(text, i, i + Len(s) - 1) = s

\* C16: no log entry that reaches the output carries an API key or a
\* presented credential in cleartext, nor a cleartext prefix of one; the only
\* value derived from a credential in the logs is the hash of hash_api_key.
C16_NoCleartextInLogs ==
    \A e \in applog : \A k \in Tokens : ~Contains(e.text, k)

\* C17: two requests that present the same credential, in whatever spelling
\* of the Authorization header the authentication accepts, are counted in
\* the same bucket, and two requests that present different credentials are
\* counted in different buckets.
C17_BucketFollowsCredential ==
    [][ (http.bucket # EmptyStr /\ http'.bucket # EmptyStr) =>
          ((http'.cred = http.cred) <=> (http'.bucket = http.bucket)) ]_vars

\* C18: in a window of the limiter at most rate_limit_per_minute requests of
\* a bucket are admitted to the rate-limited handlers (create_message,
\* list_messages and get_message together); a request that is not admitted
\* is answered 429 without running its handler.
C18_AtMostNPerBucket ==
    /\ \A b \in Buckets :
          admitted[<<b, "create_message">>] + admitted[<<b, "list_messages">>]
             + admitted[<<b, "get_message">>] <= rate_limit_per_minute
    /\ http.status = "429" => ~http.ran

\* C19: a list request never fails because of its limit: whatever integer
\* is passed, through DynamoDBService.list_messages or through
\* GET /api/v1/messages, the store is queried with min(max(1, limit), 100).
C19_LimitNeverFails ==
    lastList.called =>
        /\ lastList.status # "422"
        /\ lastList.queried
        /\ lastList.Limit = (IF lastList.limit < 1 THEN 1
                             ELSE IF lastList.limit > 100 THEN 100
                             ELSE lastList.limit)

\* C19, amended: DynamoDBService.list_messages queries the store with
\* min(max(1, limit), 100) for every integer limit, so a first page holds
\* that many messages or all there are; GET /api/v1/messages answers a limit
\* outside 1..100 with a 422 and does not query, and passes any other limit
\* on unchanged.
C19_ServiceClampsRouteRejects ==
    lastList.called =>
        IF lastList.via = "route" /\ (lastList.limit < 1 \/ lastList.limit > 100)
        THEN /\ lastList.status = "422"
             /\ ~lastList.queried
             /\ lastList.returned = 0
        ELSE /\ lastList.status # "422"
             /\ lastList.queried
             /\ lastList.Limit = (IF lastList.limit < 1 THEN 1
                                  ELSE IF lastList.limit > 100 THEN 100
                                  ELSE lastList.limit)
             /\ lastList.via = "route" => lastList.Limit = lastList.limit
             /\ lastList.start_key = NoneKey =>
                   /\ lastList.status \in {"ok", "200"}
                   /\ lastList.returned =
                         (IF lastList.stored < lastList.Limit
                          THEN lastList.stored ELSE lastList.Limit)

\* The service was called with limit 0 on two stored messages and returned
\* one.
C19_Witness ==
    /\ lastList.via = "service"
    /\ lastList.limit = 0
    /\ lastList.status = "ok"
    /\ lastList.stored = 2
    /\ lastList.returned = 1

\* The timestamp of a stored message.
TimestampOf(message_id) ==
    (CHOOSE m \in table : m.message_id = message_id).timestamp

\* C20: with no write since its first call, a client that calls
\* list_messages with a fixed limit and feeds each next_key back as start_key
\* gets no error, and when a page comes without next_key the pages together
\* hold every stored message exactly once, the later timestamp first.
C20_WalkIsRoundTrip ==
    (walk.open /\ ~walk.dirty) =>
        /\ ~walk.failed
        /\ walk.ended =>
              /\ Len(walk.seen) = Cardinality(table)
              /\ {walk.seen[i] : i \in 1..Len(walk.seen)}
                    = {m.message_id : m \in table}
              /\ \A i, j \in 1..Len(walk.seen) :
                    i < j => TimestampOf(walk.seen[i])
                                >= TimestampOf(walk.seen[j])

\* The stored messages a call with this start_key resumes over.
Remaining(start_key) ==
    {m \in table : start_key = NoneKey \/ m.timestamp < start_key}

\* C21: the next_key a call of list_messages returns is None when fewer
\* messages than the limit it queried with remained from its resume point,
\* and otherwise the timestamp of the last message of the page: the
\* timestamp with fewer than limit remaining messages above it and at least
\* limit remaining messages at or above it.
C21_NextKeyMarksPageEnd ==
    [][ (lastList' # lastList /\ lastList'.status \in {"ok", "200"}) =>
          LET rest == Remaining(lastList'.start_key)
              n == lastList'.Limit
          IN  IF Cardinality(rest) < n
              THEN lastList'.next_key = NoneKey
              ELSE /\ lastList'.next_key \in {m.timestamp : m \in rest}
                   /\ Cardinality({m \in rest :
                          m.timestamp > lastList'.next_key}) < n
                   /\ Cardinality({m \in rest :
                          m.timestamp >= lastList'.next_key}) >= n ]_vars

\* A call resumed from a start_key, found exactly limit messages left and
\* returned the timestamp of the last one.
C21_Witness ==
    /\ lastList.status = "ok"
    /\ lastList.start_key # NoneKey
    /\ lastList.Limit = 1
    /\ lastList.returned = 1
    /\ lastList.stored = 2
    /\ lastList.next_key # NoneKey

\* C22: while messages are created, a client that pages through
\* list_messages gets no message twice and, when its walk has ended, has got
\* every message that was stored before the walk began.
C22_WalkUnderWrites ==
    walk.open =>
        /\ ~walk.failed
        /\ \A i, j \in 1..Len(walk.seen) :
              i # j => walk.seen[i] # walk.seen[j]
        /\ walk.ended =>
              \A id \in 1..walk.before :
                 \E i \in 1..Len(walk.seen) : walk.seen[i] = id

\* C23: when the storage call of a message handler (create, list, get by
\* id, public list) raises a ClientError, the response is a 500 with the
\* code DATABASE_ERROR whose body carries nothing of the storage's error,
\* and the error code of the storage is logged.
C23_StorageErrorIsGeneric ==
    (resp.outcome.kind = "ClientError" /\ resp.status # "401") =>
        /\ resp.endpoint \in {"create_message", "list_messages",
                               "get_message", "get_public_messages"}
        /\ resp.status = "500"
        /\ resp.code = "DATABASE_ERROR"
        /\ resp.cause = "none"
        /\ ~resp.details_trace
        /\ resp.logged = resp.outcome.code

\* The public list answered a storage error.
C23_Witness ==
    /\ resp.endpoint = "get_public_messages"
    /\ resp.outcome.code = "ProvisionedThroughputExceededException"
    /\ resp.code = "DATABASE_ERROR"

C25_BucketIsValidatedToken ==
    http.bucket # EmptyStr => http.bucket = ApiKeyTag \o http.cred

\* C26: the two classifiers of paths agree: a path should_apply_rate_limit
\* selects (one under /api/v1/, as the paths of the three rate-limited routes
\* are) is not public for _is_public_endpoint, so a request on it is forwarded
\* only with a key of the cache; and a path _is_public_endpoint calls public
\* is not selected for rate limiting.
C26_ClassifiersAgree ==
    /\ \A route \in LimitedRoutes : ShouldApplyRateLimit(route.path)
    /\ req.active =>
          /\ ShouldApplyRateLimit(req.path) =>
                /\ ~IsPublicEndpoint(req.path)
                /\ req.out.forwarded =>
                      /\ req.hdr.present
                      /\ ExtractBearerToken(req.hdr.v).v \in api_keys_cache
          /\ IsPublicEndpoint(req.path) => ~ShouldApplyRateLimit(req.path)

\* A request on the path of a rate-limited route was rejected for its key,
\* and one on a public path under /api/ is outside the rate limiting.
C26_Witness ==
    /\ req.active
    /\ req.path = PathMessage
    /\ ShouldApplyRateLimit(req.path)
    /\ req.out.code = "INVALID_API_KEY"
    /\ ~ShouldApplyRateLimit(PathPublicMessages)

\* C27: whatever calls of start_key_refresh_task and stop_key_refresh_task
\* were made, at most one refresh task is alive (created and not done); a
\* task is created only when the handle holds no task or a task that is
\* done, and a start that finds a task not done creates none and only warns.
C27_AtMostOneRefreshTask ==
    /\ [](Cardinality(Alive) <= 1)
    /\ [][ /\ Created' # Created =>
                /\ refresh_task = NoneTask \/ Done(refresh_task)
                /\ Cardinality(Created') = Cardinality(Created) + 1
                /\ refresh_task' \in Created' \ Created
           /\ (log' # log /\ log'.event = "key_refresh_task_already_running") =>
                /\ refresh_task # NoneTask
                /\ ~Done(refresh_task)
                /\ tasks' = tasks
                /\ refresh_task' = refresh_task ]_vars

\* A start found the second task alive, after the first was stopped and
\* ended, and only warned.
C27_Witness ==
    /\ log.event = "key_refresh_task_already_running"
    /\ Alive = {refresh_task}
    /\ \E t \in TaskIds : t # refresh_task /\ Done(t)

\* C28: a request that AuthMiddleware rejects (credential missing, malformed
\* or not in the cache) does not reach the rate limiter: the 401 is answered
\* without a bucket being computed, and no counter of any bucket changes.
C28_RejectedNeverCounted ==
    [][ (http' # http /\ http'.status = "401") =>
          /\ storage' = storage
          /\ admitted' = admitted
          /\ http'.bucket = EmptyStr
          /\ ~http'.ran
          /\ \A entry \in applog' : entry.event = "auth_failed" ]_vars

\* A request was rejected while a bucket stood at its limit.
C28_Witness ==
    /\ http.status = "401"
    /\ http.code = "INVALID_API_KEY"
    /\ \E k \in LimitKeys : storage[k] = rate_limit_per_minute

\* C29: if the secret comes to hold a key list K and keeps it, and refreshes
\* of the running task go on completing (their fetches succeed), then from
\* some moment on the cache is K, and on a protected path dispatch forwards
\* a Bearer token exactly when it is in K: a revoked key is rejected and an
\* added key accepted.
C29_ChangesTakeEffect ==
    \A p \in GoodPayloads :
        ( /\ <>[](secret = p)
          /\ []<><<\E t \in TaskIds : RefreshAssign(t)>>_vars )
        => <>[]( /\ api_keys_cache = KeysIn(p)
                 /\ \A k \in Tokens :
                       Authorize(PathMessages,
                                 Header(Bearer \o <<SP>> \o k)).forwarded
                          <=> k \in KeysIn(p) )

\* A refresh has installed the keys of a changed secret: a key of the cache
\* it replaced is now rejected.
C29_Witness ==
    /\ log.event = "api_keys_refreshed"
    /\ api_keys_cache = KeysIn(secret)
    /\ \E k \in Tokens :
          /\ k \in replaced
          /\ k \notin api_keys_cache
          /\ ~Authorize(PathMessages, Header(Bearer \o <<SP>> \o k)).forwarded

\* C30: of two messages create_message stored, the one stored later has the
\* strictly greater timestamp; so no two stored messages share a timestamp
\* and a timestamp names one position of the descending list.
C30_TimestampsStrictlyIncrease ==
    \A a, b \in table :
        a.message_id < b.message_id => a.timestamp < b.timestamp
====
